---- MODULE Spec2Model ----
(***************************************************************************)
(* The MGNREGA dashboard script (src/streamlit_app.py) as a state machine. *)
(* One execution of the script ("run") walks pc through the script's       *)
(* sections from top to bottom; the process-wide payload cache survives    *)
(* between runs.                                                           *)
(*                                                                         *)
(* Numbers.  Every number the script computes is kept exactly, as a        *)
(* reduced fraction n/d; Python's None and the float NaN are separate      *)
(* values.  Floating-point rounding is not modelled.                       *)
(*                                                                         *)
(* Dictionaries (JSON objects, rows) are functions from keys to values; a  *)
(* key that is absent from the JSON is absent from the DOMAIN.             *)
(***************************************************************************)
EXTENDS Integers, Sequences, FiniteSets, TLC

VARIABLES
    pc,                 \* position in the script, or "idle" between runs
    has_rerun,          \* hasattr(st, "experimental_rerun") of the installed Streamlit
    cache,              \* st.cache_data entry of fetch_payload(API_URL)
    clicked,            \* the button whose click started this run ("none" otherwise)
    run_by,             \* "user": started by a user action; "rerun": by st.experimental_rerun()
    rendered,           \* the buttons this run has put on the page so far
    net,                \* the network requests this run has issued, in order
    fetched,            \* the outcome of this run's payload load: "none", "hit", "fetch", "failed"
    ui_error,           \* the st.error shown by this run: "none", "health", "fetch"
    stop_at,            \* where st.stop() ended this run ("none" if it did not)
    payload,            \* the payload this run works on
    selected_state,     \* sidebar selection
    selected_district,  \* sidebar selection
    view_df,            \* filter_data(m_df, selected_state, selected_district)
    state_stats,        \* the overview cards' values
    stats_src,          \* which branch produced state_stats: "backend", "row", "agg"
    comp,               \* employment composition numbers
    work,               \* work progress numbers
    fin,                \* financial performance numbers
    kpi,                \* the KPI cards
    err,                \* the unhandled exception that ended this run
    refresh_pending     \* history: the cache was force-cleared and no load has run since

vars == <<pc, has_rerun, cache, clicked, run_by, rendered, net, fetched, ui_error,
          stop_at, payload, selected_state, selected_district, view_df, state_stats,
          stats_src, comp, work, fin, kpi, err, refresh_pending>>

cacheVars == <<cache, refresh_pending>>
runVars == <<clicked, run_by, rendered, net, fetched, ui_error, stop_at>>
selVars == <<payload, selected_state, selected_district>>
outVars == <<view_df, state_stats, stats_src, comp, work, fin, kpi>>

(***************************************************************************)
(* Bounds and program constants                                            *)
(***************************************************************************)
\* the largest number of rows of mgnrega_data in a payload
MaxRows == 2
\* the clock advances in steps of this many seconds between runs
TickStep == 600
\* @st.cache_data(ttl=1800)
TTL == 1800

(***************************************************************************)
(* Values                                                                  *)
(***************************************************************************)
None == [k |-> "None", n |-> 0, d |-> 1]
NaN == [k |-> "NaN", n |-> 0, d |-> 1]
Num(i) == [k |-> "num", n |-> i, d |-> 1]

RECURSIVE Gcd(_, _)
Gcd(a, b) == IF b = 0 THEN a ELSE Gcd(b, a % b)

\* the fraction n/d (n >= 0, d > 0) in lowest terms
Rat(n, d) == LET g == Gcd(n, d) IN [k |-> "num", n |-> n \div g, d |-> d \div g]

IsNum(v) == v.k = "num"

\* Python's `v or 0`: None and 0 are falsy, NaN is truthy
Or0(v) == IF v = None \/ (IsNum(v) /\ v.n = 0) THEN Num(0) ELSE v

\* float(a) / float(b) * 100 on two non-None values: [err, v]
\* (a float division by zero raises ZeroDivisionError, also for NaN / 0.0)
PyDiv100(a, b) ==
    IF IsNum(b) /\ b.n = 0 THEN [err |-> TRUE, v |-> None]
    ELSE IF ~IsNum(a) \/ ~IsNum(b) THEN [err |-> FALSE, v |-> NaN]
    ELSE [err |-> FALSE, v |-> Rat(a.n * b.d * 100, a.d * b.n)]

\* float(a) / b on a number a and an integer b > 0
PyDiv(a, b) == IF ~IsNum(a) THEN NaN ELSE Rat(a.n, a.d * b)

\* dict.get(key) on a dictionary of numbers
Get(dict, key) == IF key \in DOMAIN dict THEN Num(dict[key]) ELSE None

(***************************************************************************)
(* DataFrames: a sequence of rows; the columns are the keys any row has,   *)
(* a cell whose row lacks the key is NaN.                                  *)
(***************************************************************************)
Columns(df) == UNION {DOMAIN df[i] : i \in 1..Len(df)}

\* DataFrame.empty: no rows or no columns
IsEmpty(df) == Len(df) = 0 \/ Columns(df) = {}

\* Series.sum(): NaN cells are skipped
RECURSIVE SumCol(_, _)
SumCol(df, c) ==
    IF df = <<>> THEN 0
    ELSE (IF c \in DOMAIN Head(df) THEN Head(df)[c] ELSE 0) + SumCol(Tail(df), c)

CountCol(df, c) == Cardinality({i \in 1..Len(df) : c \in DOMAIN df[i]})

\* Series.mean(): NaN cells are skipped, NaN when nothing is left
MeanCol(df, c) ==
    IF CountCol(df, c) = 0 THEN NaN ELSE Rat(SumCol(df, c), CountCol(df, c))

\* row.get(key) on a row of the frame `frame`: None when the frame has no such
\* column, NaN when only this row lacks the value
RowGet(frame, row, key) ==
    IF key \notin Columns(frame) THEN None
    ELSE IF key \in DOMAIN row THEN Num(row[key])
    ELSE NaN

(***************************************************************************)
(* Payload unpacking (payload.get with defaults)                           *)
(***************************************************************************)
States(p) == IF "states" \in DOMAIN p THEN p.states ELSE <<>>
Districts(p) == IF "districts" \in DOMAIN p THEN p.districts ELSE <<>>
M_df(p) == IF "mgnrega_data" \in DOMAIN p THEN p.mgnrega_data ELSE <<>>
\* `payload.get("kpis") or {}` is falsy exactly when the key is absent (or empty)
HasKpis(p) == "kpis" \in DOMAIN p
\* overall = kpis.get("overall", {}); overall.get(key)
OverallGet(p, key) ==
    IF HasKpis(p) /\ "overall" \in DOMAIN p.kpis THEN Get(p.kpis.overall, key) ELSE None
\* kpis.get("by_state") or []
ByState(p) == IF HasKpis(p) /\ "by_state" \in DOMAIN p.kpis THEN p.kpis.by_state ELSE <<>>

(***************************************************************************)
(* filter_data                                                             *)
(***************************************************************************)
\* a name is "set" when it is truthy: not None and not the empty string
IsSet(name) == name # ""

RowsWhere(df, col, name) ==
    SelectSeq(df, LAMBDA r : col \in DOMAIN r /\ r[col] = name)

\* df[df[col] == name]: KeyError when the frame has no such column
Mask(df, col, name) ==
    IF col \in Columns(df) THEN [err |-> "none", df |-> RowsWhere(df, col, name)]
    ELSE [err |-> "KeyError", df |-> <<>>]

\* a plausible slip: the state test first, so that the state overrides the district
filter_data_state_first(df, state_name, district_name) ==
    IF IsEmpty(df) THEN [err |-> "none", df |-> df]
    ELSE IF IsSet(state_name) /\ state_name # "All" THEN Mask(df, "state_name", state_name)
    ELSE IF IsSet(district_name) /\ district_name # "All"
         THEN Mask(df, "district_name", district_name)
    ELSE [err |-> "none", df |-> df]

filter_data(df, state_name, district_name) ==
    IF IsEmpty(df) THEN [err |-> "none", df |-> df]
    ELSE IF IsSet(district_name) /\ district_name # "All"
         THEN Mask(df, "district_name", district_name)
    ELSE IF IsSet(state_name) /\ state_name # "All" THEN Mask(df, "state_name", state_name)
    ELSE [err |-> "none", df |-> df]

(***************************************************************************)
(* Overview cards (state_stats)                                            *)
(***************************************************************************)
\* {s["state_name"]: s for s in by_state}: KeyError on an entry without the key
BackendMapOk(p) ==
    \A i \in 1..Len(ByState(p)) : "state_name" \in DOMAIN ByState(p)[i]

InBackendMap(p, name) ==
    \E i \in 1..Len(ByState(p)) : ByState(p)[i].state_name = name

\* a later entry of the same name replaces an earlier one
BackendEntry(p, name) ==
    LET idx == {i \in 1..Len(ByState(p)) : ByState(p)[i].state_name = name}
    IN ByState(p)[CHOOSE i \in idx : \A j \in idx : j <= i]

StatFields == {"approved_labour_budget", "total_expenditure", "avg_wage_rate",
               "avg_days_of_employment_per_household", "total_households_worked",
               "percent_utilization"}

NoStats == [f \in StatFields |-> None]

\* the positions view_df.sort_values("data_fetched_on", ascending=False).iloc[0]
\* can pick: a greatest data_fetched_on (the sort is not stable, so any of the
\* rows that tie; NaN sorts last); without the column the sort raises KeyError
\* and the except branch takes view_df.iloc[0]
LatestRows(frame, view) ==
    LET with == {i \in 1..Len(view) : "data_fetched_on" \in DOMAIN view[i]}
    IN IF "data_fetched_on" \notin Columns(frame) THEN {1}
       ELSE IF with = {} THEN 1..Len(view)
       ELSE {i \in with : \A j \in with : view[j].data_fetched_on <= view[i].data_fetched_on}

\* the single-district branch: the values of the row dr, no aggregation
\* int(NaN) raises ValueError; float(NaN) does not
RowStats(frame, dr) ==
    LET bud == Or0(RowGet(frame, dr, "approved_labour_budget"))
        exp == Or0(RowGet(frame, dr, "total_exp"))
        hh  == Or0(RowGet(frame, dr, "total_households_worked"))
        div == PyDiv100(exp, bud)
    IN IF bud = NaN \/ hh = NaN THEN [err |-> "ValueError", stats |-> NoStats]
       ELSE [err |-> "none",
             stats |->
               [approved_labour_budget |-> bud,
                total_expenditure |-> exp,
                avg_wage_rate |-> Or0(RowGet(frame, dr, "average_wage_rate_per_day_per_person")),
                avg_days_of_employment_per_household |->
                    Or0(RowGet(frame, dr, "average_days_of_employment_per_household")),
                total_households_worked |-> hh,
                percent_utilization |->
                    IF bud.n = 0 \/ div.err THEN None ELSE div.v]]

\* `int(view_df[c].sum()) if not view_df.empty else 0`
SumV(view, c) == IF IsEmpty(view) THEN Num(0) ELSE Num(SumCol(view, c))

\* a plausible slip: the mean without the guard for an empty view
MeanV_unguarded(view, c) == MeanCol(view, c)

\* `float(view_df[c].mean()) if not view_df.empty else 0`
MeanV(view, c) == IF IsEmpty(view) THEN Num(0) ELSE MeanCol(view, c)
\* view_df[c] raises KeyError when the frame has no column c
ColsOk(frame, view, cols) == IsEmpty(view) \/ cols \subseteq Columns(frame)

\* the fallback branch: aggregates over the view
AggStats(frame, view) ==
    LET bud == SumV(view, "approved_labour_budget")
        exp == SumV(view, "total_exp")
        div == PyDiv100(exp, bud)
    IN IF ~ColsOk(frame, view, {"approved_labour_budget", "total_exp",
                                "average_wage_rate_per_day_per_person",
                                "average_days_of_employment_per_household",
                                "total_households_worked"})
       THEN [err |-> "KeyError", stats |-> NoStats]
       ELSE [err |-> "none",
             stats |->
               [approved_labour_budget |-> bud,
                total_expenditure |-> exp,
                avg_wage_rate |-> MeanV(view, "average_wage_rate_per_day_per_person"),
                avg_days_of_employment_per_household |->
                    MeanV(view, "average_days_of_employment_per_household"),
                total_households_worked |-> SumV(view, "total_households_worked"),
                percent_utilization |->
                    IF bud.n = 0 \/ div.err THEN None ELSE div.v]]

\* state_stats as the script selects it, for the row at position i of the view:
\* [err, stats, src]
SelectStats(p, view, ss, sd, i) ==
    IF ~BackendMapOk(p) THEN [err |-> "KeyError", stats |-> NoStats, src |-> "none"]
    ELSE IF ss # "All" /\ InBackendMap(p, ss)
    THEN [err |-> "none",
          stats |-> [f \in StatFields |-> Get(BackendEntry(p, ss), f)],
          src |-> "backend"]
    ELSE IF ~IsEmpty(view) /\ sd # "All"
    THEN [err |-> RowStats(M_df(p), view[i]).err,
          stats |-> RowStats(M_df(p), view[i]).stats,
          src |-> "row"]
    ELSE [err |-> AggStats(M_df(p), view).err,
          stats |-> AggStats(M_df(p), view).stats,
          src |-> "agg"]

\* the cards and the utilization gauge: int(pct) raises ValueError on NaN
CardsErr(stats) == IF stats.percent_utilization = NaN THEN "ValueError" ELSE "none"

\* what a card shows for an undefined value
Shown(v) == IF v = None THEN "dash" ELSE "value"

(***************************************************************************)
(* Employment composition, work progress, financial performance            *)
(***************************************************************************)
Max(a, b) == IF a >= b THEN a ELSE b

NoComp == [total_persondays |-> None, sc |-> None, st_ |-> None, women |-> None,
           other |-> None, other_for_women |-> None,
           active_workers |-> None, households |-> None]

CompCols == {"persondays_of_central_liability_so_far", "sc_persondays", "st_persondays",
             "women_persondays", "total_num_of_active_workers", "total_households_worked"}

\* the employment composition numbers of a view whose columns exist
CompOf(view) ==
    LET total == SumV(view, "persondays_of_central_liability_so_far").n
        sc    == SumV(view, "sc_persondays").n
        st_   == SumV(view, "st_persondays").n
        women == SumV(view, "women_persondays").n
    IN [total_persondays |-> Num(total), sc |-> Num(sc), st_ |-> Num(st_),
        women |-> Num(women),
        other |-> Num(Max(total - sc - st_, 0)),
        other_for_women |-> Num(Max(total - women, 0)),
        active_workers |-> SumV(view, "total_num_of_active_workers"),
        households |-> SumV(view, "total_households_worked")]

NoWork == [completed |-> None, ongoing |-> None, pct_cat_b |-> None,
           pct_agri |-> None, pct_nrm |-> None]

WorkCols == {"number_of_completed_works", "number_of_ongoing_works",
             "percent_of_category_B_works",
             "percentage_of_expenditure_on_agriculture_allied_works",
             "percent_of_NRM_expenditure"}

WorkOf(view) ==
    [completed |-> SumV(view, "number_of_completed_works"),
     ongoing |-> SumV(view, "number_of_ongoing_works"),
     pct_cat_b |-> MeanV(view, "percent_of_category_B_works"),
     pct_agri |-> MeanV(view, "percentage_of_expenditure_on_agriculture_allied_works"),
     pct_nrm |-> MeanV(view, "percent_of_NRM_expenditure")]

NoFin == [wages |-> None, material |-> None, pct_payments |-> None, nil_gps |-> None,
          avg_cost_per_work |-> None]

FinCols == {"wages", "material_and_skilled_wages",
            "percentage_payments_generated_within_15_days", "number_of_gp_with_nil_exp"}

\* what the design document describes: the division by max(completed + ongoing, 1)
\* without the guard
avg_cost_unguarded(frame, view, completed, ongoing) ==
    IF "total_exp" \notin Columns(frame) THEN None
    ELSE PyDiv(Num(SumCol(view, "total_exp")), Max(completed + ongoing, 1))

\* avg_cost_per_work: None unless completed + ongoing > 0; a KeyError on
\* total_exp is caught and leaves None
avg_cost_per_work(frame, view, completed, ongoing) ==
    IF completed + ongoing > 0
    THEN IF "total_exp" \notin Columns(frame) THEN None
         ELSE PyDiv(Num(SumCol(view, "total_exp")), Max(completed + ongoing, 1))
    ELSE None

FinOf(frame, view, completed, ongoing) ==
    [wages |-> SumV(view, "wages"),
     material |-> SumV(view, "material_and_skilled_wages"),
     pct_payments |-> MeanV(view, "percentage_payments_generated_within_15_days"),
     nil_gps |-> SumV(view, "number_of_gp_with_nil_exp"),
     avg_cost_per_work |-> avg_cost_per_work(frame, view, completed, ongoing)]

(***************************************************************************)
(* KPIs                                                                    *)
(***************************************************************************)
NoKpi == [shown |-> FALSE, bud_pct |-> None, fem |-> None, scst |-> None,
          tpr |-> None, wcr |-> None]

\* float(num) / float(sum of denCol) * 100 inside try/except: None on a KeyError
\* (a column of `cols` missing) or a ZeroDivisionError
TryRatio(frame, view, num, denCol, cols) ==
    LET div == PyDiv100(Num(num), Num(SumCol(view, denCol)))
    IN IF ~(cols \subseteq Columns(frame)) \/ div.err THEN None ELSE div.v

\* a plausible slip: the ratio is always recomputed, the backend value ignored
Resolve_recompute(backend, view, derived) ==
    IF ~IsEmpty(view) THEN derived ELSE backend

\* the backend value when it is not None, else the derived one when the view
\* has rows
Resolve(backend, view, derived) ==
    IF backend = None /\ ~IsEmpty(view) THEN derived ELSE backend

fem_derived(frame, view) ==
    TryRatio(frame, view, SumCol(view, "women_persondays"),
             "persondays_of_central_liability_so_far",
             {"women_persondays", "persondays_of_central_liability_so_far"})

scst_derived(frame, view) ==
    TryRatio(frame, view, SumCol(view, "sc_persondays") + SumCol(view, "st_persondays"),
             "persondays_of_central_liability_so_far",
             {"sc_persondays", "st_persondays", "persondays_of_central_liability_so_far"})

tpr_derived(frame, view) ==
    IF "percentage_payments_generated_within_15_days" \notin Columns(frame) THEN None
    ELSE MeanCol(view, "percentage_payments_generated_within_15_days")

\* completed / (completed + ongoing) * 100, None when there are no works or a
\* column is missing
wcr_of(frame, view) ==
    LET completed == SumV(view, "number_of_completed_works").n
        ongoing == SumV(view, "number_of_ongoing_works").n
    IN IF ~ColsOk(frame, view, {"number_of_completed_works", "number_of_ongoing_works"})
       THEN None
       ELSE IF completed + ongoing > 0 THEN Rat(completed * 100, completed + ongoing)
       ELSE None

\* the KPI section; without a kpis object only a warning is shown
KpiOf(p, view) ==
    IF HasKpis(p)
    THEN [shown |-> TRUE,
          bud_pct |-> OverallGet(p, "percent_utilization"),
          fem |-> Resolve(OverallGet(p, "female_participation_rate"), view,
                          fem_derived(M_df(p), view)),
          scst |-> Resolve(OverallGet(p, "sc_st_participation_rate"), view,
                           scst_derived(M_df(p), view)),
          tpr |-> Resolve(OverallGet(p, "average_percentage_payments_within_15_days"), view,
                          tpr_derived(M_df(p), view)),
          wcr |-> wcr_of(M_df(p), view)]
    ELSE NoKpi

(***************************************************************************)
(* The script, section by section                                          *)
(***************************************************************************)
NoErr == [at |-> "none", what |-> "none"]

\* an exception no handler catches ends the run
Crash(at, what) == pc' = "crashed" /\ err' = [at |-> at, what |-> what]

Names(list, key) == {list[i][key] : i \in {j \in 1..Len(list) : key \in DOMAIN list[j]}}

StateOptions(p) == {"All"} \cup Names(States(p), "state_name")

\* the ids of the states named ss
Sids(p, ss) ==
    {States(p)[i].id : i \in {j \in 1..Len(States(p)) :
        "id" \in DOMAIN States(p)[j] /\ "state_name" \in DOMAIN States(p)[j]
        /\ States(p)[j].state_name = ss}}

\* the exception the sidebar raises for the state selection ss, "none" if none:
\* a missing column is a KeyError; int() of a several-row or empty selection of
\* ids is a TypeError
SidebarErr(p, ss) ==
    IF ~IsEmpty(States(p)) /\ "state_name" \notin Columns(States(p)) THEN "KeyError"
    ELSE IF ss # "All" /\ ~IsEmpty(Districts(p))
    THEN IF "id" \notin Columns(States(p)) \/ "state_id" \notin Columns(Districts(p))
            \/ "district_name" \notin Columns(Districts(p))
         THEN "KeyError"
         ELSE IF Cardinality(Sids(p, ss)) # 1 THEN "TypeError"
         ELSE "none"
    ELSE IF ~IsEmpty(Districts(p)) /\ "district_name" \notin Columns(Districts(p))
    THEN "KeyError"
    ELSE "none"

DistrictOptions(p, ss) ==
    IF ss # "All" /\ ~IsEmpty(Districts(p))
    THEN {"All"} \cup
         {Districts(p)[i].district_name : i \in {j \in 1..Len(Districts(p)) :
             "district_name" \in DOMAIN Districts(p)[j] /\ "state_id" \in DOMAIN Districts(p)[j]
             /\ Districts(p)[j].state_id \in Sids(p, ss)}}
    ELSE {"All"} \cup Names(Districts(p), "district_name")

\* lines 107-130: unpack the payload and read the two selectors
Sidebar ==
    /\ pc = "sidebar"
    /\ \E ss \in StateOptions(payload) :
         IF SidebarErr(payload, ss) # "none"
         THEN /\ Crash("sidebar", SidebarErr(payload, ss))
              /\ selected_state' = ss
              /\ UNCHANGED selected_district
         ELSE \E sd \in DistrictOptions(payload, ss) :
                /\ selected_state' = ss
                /\ selected_district' = sd
                /\ pc' = "gate"
                /\ UNCHANGED err
    /\ UNCHANGED <<has_rerun, cacheVars, runVars, payload, outVars>>

\* a plausible slip: the gate lets every selection through
DistrictChosen_always(sd) == TRUE

\* line 133, negated: a district is selected
DistrictChosen(sd) == sd # "All"

\* lines 133-136: no district selected, st.stop()
GateStop ==
    /\ pc = "gate"
    /\ ~DistrictChosen(selected_district)
    /\ pc' = "stopped"
    /\ stop_at' = "gate"
    /\ UNCHANGED <<has_rerun, cacheVars, clicked, run_by, rendered, net, fetched, ui_error,
                   selVars, outVars, err>>

GatePass ==
    /\ pc = "gate"
    /\ DistrictChosen(selected_district)
    /\ pc' = "filter"
    /\ UNCHANGED <<has_rerun, cacheVars, runVars, selVars, outVars, err>>

\* line 148
FilterStep ==
    /\ pc = "filter"
    /\ LET r == filter_data(M_df(payload), selected_state, selected_district)
       IN IF r.err # "none"
          THEN Crash("filter_data", r.err) /\ UNCHANGED view_df
          ELSE view_df' = r.df /\ pc' = "overview" /\ UNCHANGED err
    /\ UNCHANGED <<has_rerun, cacheVars, runVars, selVars, state_stats, stats_src,
                   comp, work, fin, kpi>>

\* lines 173-228
Overview ==
    /\ pc = "overview"
    /\ \E i \in (IF IsEmpty(view_df) THEN {1} ELSE LatestRows(M_df(payload), view_df)) :
         LET r == SelectStats(payload, view_df, selected_state, selected_district, i)
             e == IF r.err # "none" THEN r.err ELSE CardsErr(r.stats)
         IN /\ state_stats' = r.stats
            /\ stats_src' = r.src
            /\ IF e # "none"
               THEN Crash("overview", e)
               ELSE pc' = "composition" /\ UNCHANGED err
    /\ UNCHANGED <<has_rerun, cacheVars, runVars, selVars, view_df, comp, work, fin, kpi>>

\* lines 236-262
Composition ==
    /\ pc = "composition"
    /\ IF ColsOk(M_df(payload), view_df, CompCols)
       THEN comp' = CompOf(view_df) /\ pc' = "work" /\ UNCHANGED err
       ELSE Crash("composition", "KeyError") /\ UNCHANGED comp
    /\ UNCHANGED <<has_rerun, cacheVars, runVars, selVars, view_df, state_stats, stats_src,
                   work, fin, kpi>>

\* lines 270-286
WorkProgress ==
    /\ pc = "work"
    /\ IF ColsOk(M_df(payload), view_df, WorkCols)
       THEN work' = WorkOf(view_df) /\ pc' = "financial" /\ UNCHANGED err
       ELSE Crash("work", "KeyError") /\ UNCHANGED work
    /\ UNCHANGED <<has_rerun, cacheVars, runVars, selVars, view_df, state_stats, stats_src,
                   comp, fin, kpi>>

\* lines 294-319; st.progress(int(pct_payments)) raises ValueError on NaN
Financial ==
    /\ pc = "financial"
    /\ IF ~ColsOk(M_df(payload), view_df, FinCols)
       THEN Crash("financial", "KeyError") /\ UNCHANGED fin
       ELSE LET f == FinOf(M_df(payload), view_df, work.completed.n, work.ongoing.n)
            IN /\ fin' = f
               /\ IF f.pct_payments = NaN
                  THEN Crash("financial", "ValueError")
                  ELSE pc' = "kpis" /\ UNCHANGED err
    /\ UNCHANGED <<has_rerun, cacheVars, runVars, selVars, view_df, state_stats, stats_src,
                   comp, work, kpi>>

\* lines 326-395
Kpis ==
    /\ pc = "kpis"
    /\ kpi' = KpiOf(payload, view_df)
    /\ pc' = "preview"
    /\ UNCHANGED <<has_rerun, cacheVars, runVars, selVars, view_df, state_stats, stats_src,
                   comp, work, fin, err>>

\* lines 398-400: the script ends
Preview ==
    /\ pc = "preview"
    /\ pc' = "done"
    /\ UNCHANGED <<has_rerun, cacheVars, runVars, selVars, outVars, err>>

NextRender ==
    \/ Sidebar
    \/ GateStop
    \/ GatePass
    \/ FilterStep
    \/ Overview
    \/ Composition
    \/ WorkProgress
    \/ Financial
    \/ Kpis
    \/ Preview

(***************************************************************************)
(* Runs, health check, cache                                               *)
(***************************************************************************)
\* stands for "no payload loaded yet"
NoPayload == [states |-> <<>>]

NoCache == [has |-> FALSE, payload |-> NoPayload, age |-> 0]

\* a plausible slip: an entry never expires
CacheValid_no_ttl(c) == c.has

\* st.cache_data(ttl=1800): an entry is served while it is younger than the ttl
CacheValid(c) == c.has /\ c.age < TTL

\* st.cache_data.clear()
Cleared(c) == NoCache

\* a plausible slip: the rerun is requested whether or not the button was clicked
ButtonValue_always(name) == TRUE

\* st.button(name): True in the run its click started
ButtonValue(name) == clicked = name

\* _safe_rerun(): st.experimental_rerun() starts the script over; without it a
\* warning is shown and the run stops
SafeRerun ==
    IF has_rerun
    THEN pc' = "rerun" /\ UNCHANGED stop_at
    ELSE pc' = "stopped" /\ stop_at' = "safe_rerun"

ResetRun ==
    /\ rendered' = {}
    /\ net' = <<>>
    /\ fetched' = "none"
    /\ ui_error' = "none"
    /\ stop_at' = "none"
    /\ payload' = NoPayload
    /\ selected_state' = "All"
    /\ selected_district' = "All"
    /\ view_df' = <<>>
    /\ state_stats' = NoStats
    /\ stats_src' = "none"
    /\ comp' = NoComp
    /\ work' = NoWork
    /\ fin' = NoFin
    /\ kpi' = NoKpi
    /\ err' = NoErr

Ended == pc \in {"idle", "done", "stopped", "crashed"}

\* the user loads the page, changes a widget, or clicks a button the page shows:
\* the script runs from the top
UserRun ==
    /\ Ended
    /\ \E b \in {"none"} \cup rendered : clicked' = b
    /\ run_by' = "user"
    /\ pc' = "health"
    /\ ResetRun
    /\ UNCHANGED <<has_rerun, cacheVars>>

\* st.experimental_rerun(): the script runs from the top, no button is clicked
Rerun ==
    /\ pc = "rerun"
    /\ clicked' = "none"
    /\ run_by' = "rerun"
    /\ pc' = "health"
    /\ ResetRun
    /\ UNCHANGED <<has_rerun, cacheVars>>

\* time passes between runs
Tick ==
    /\ Ended
    /\ cache.has
    /\ cache.age < TTL
    /\ cache' = [cache EXCEPT !.age = IF cache.age + TickStep > TTL THEN TTL
                                       ELSE cache.age + TickStep]
    /\ UNCHANGED <<pc, has_rerun, refresh_pending, runVars, selVars, outVars, err>>

\* lines 52-55: the health check answers in time
HealthOk ==
    /\ pc = "health"
    /\ net' = Append(net, "health")
    /\ pc' = "force"
    /\ UNCHANGED <<has_rerun, cacheVars, clicked, run_by, rendered, fetched, ui_error,
                   stop_at, selVars, outVars, err>>

\* lines 56-61: the health check fails or times out
HealthFail ==
    /\ pc = "health"
    /\ net' = Append(net, "health")
    /\ ui_error' = "health"
    /\ rendered' = rendered \cup {"retry_health"}
    /\ IF ButtonValue("retry_health")
       THEN SafeRerun
       ELSE pc' = "stopped" /\ stop_at' = "health"
    /\ UNCHANGED <<has_rerun, cacheVars, clicked, run_by, fetched, selVars, outVars, err>>

\* lines 86-91: the sidebar's "Force refresh data" button
ForceRefresh ==
    /\ pc = "force"
    /\ rendered' = rendered \cup {"force_refresh"}
    /\ IF ButtonValue("force_refresh")
       THEN /\ cache' = Cleared(cache)
            /\ refresh_pending' = TRUE
            /\ SafeRerun
       ELSE /\ pc' = "load"
            /\ UNCHANGED <<cacheVars, stop_at>>
    /\ UNCHANGED <<has_rerun, clicked, run_by, net, fetched, ui_error, selVars, outVars, err>>

\* lines 94-96, fetch_payload served from the cache
CacheHit ==
    /\ pc = "load"
    /\ CacheValid(cache)
    /\ payload' = cache.payload
    /\ fetched' = "hit"
    /\ refresh_pending' = FALSE
    /\ pc' = "sidebar"
    /\ UNCHANGED <<has_rerun, cache, clicked, run_by, rendered, net, ui_error, stop_at,
                   selected_state, selected_district, outVars, err>>

\* lines 77-83 and 96: requests.get answers; the result replaces the cache entry
FetchOk(P) ==
    /\ pc = "load"
    /\ ~CacheValid(cache)
    /\ \E p \in P :
         /\ cache' = [has |-> TRUE, payload |-> p, age |-> 0]
         /\ payload' = p
    /\ net' = Append(net, "fetch")
    /\ fetched' = "fetch"
    /\ refresh_pending' = FALSE
    /\ pc' = "sidebar"
    /\ UNCHANGED <<has_rerun, clicked, run_by, rendered, ui_error, stop_at,
                   selected_state, selected_district, outVars, err>>

\* lines 97-105: requests.get fails or times out; nothing is cached
FetchFail ==
    /\ pc = "load"
    /\ ~CacheValid(cache)
    /\ net' = Append(net, "fetch")
    /\ fetched' = "failed"
    /\ ui_error' = "fetch"
    /\ rendered' = rendered \cup {"retry_fetch"}
    /\ IF ButtonValue("retry_fetch")
       THEN /\ cache' = Cleared(cache)
            /\ refresh_pending' = TRUE
            /\ SafeRerun
       ELSE /\ pc' = "stopped"
            /\ stop_at' = "fetch"
            /\ refresh_pending' = FALSE
            /\ UNCHANGED cache
    /\ UNCHANGED <<has_rerun, clicked, run_by, selVars, outVars, err>>

(***************************************************************************)
(* Payloads                                                                *)
(***************************************************************************)
SeqsUpTo(S, n) == UNION {[1..k -> S] : k \in 0..n}

\* a row of mgnrega_data with every field of the data model
BaseRow ==
    [state_name |-> "S1", district_name |-> "D1", state_id |-> 1, data_fetched_on |-> 1,
     approved_labour_budget |-> 1000000, total_exp |-> 250000,
     average_wage_rate_per_day_per_person |-> 200,
     average_days_of_employment_per_household |-> 40,
     total_households_worked |-> 10,
     persondays_of_central_liability_so_far |-> 4,
     sc_persondays |-> 1, st_persondays |-> 1, women_persondays |-> 1,
     total_num_of_active_workers |-> 20,
     number_of_completed_works |-> 3, number_of_ongoing_works |-> 1,
     percent_of_category_B_works |-> 10,
     percentage_of_expenditure_on_agriculture_allied_works |-> 20,
     percent_of_NRM_expenditure |-> 30,
     wages |-> 6, material_and_skilled_wages |-> 2,
     percentage_payments_generated_within_15_days |-> 50,
     number_of_gp_with_nil_exp |-> 1]

\* the row r without the key c
Without(r, c) == [x \in DOMAIN r \ {c} |-> r[x]]

OtherDistrictRow == [BaseRow EXCEPT !.district_name = "D2", !.data_fetched_on = 2,
                                    !.persondays_of_central_liability_so_far = 8]

StatesList == <<[id |-> 1, state_name |-> "S1", state_code |-> "01"]>>
DistrictsList == <<[id |-> 1, district_name |-> "D1", district_code |-> "0101", state_id |-> 1],
                   [id |-> 2, district_name |-> "D2", district_code |-> "0102", state_id |-> 1]>>

OverallFull == [percent_utilization |-> 55, female_participation_rate |-> 30,
                sc_st_participation_rate |-> 60,
                average_percentage_payments_within_15_days |-> 70]

S1Entry == [state_name |-> "S1", approved_labour_budget |-> 7, total_expenditure |-> 3,
            avg_wage_rate |-> 210, avg_days_of_employment_per_household |-> 41,
            total_households_worked |-> 9, percent_utilization |-> 42]

\* the payloads with the rows `rows` and each kpis object of K, or none
PayloadsOf(rowSeqs, K) ==
    {[states |-> StatesList, districts |-> DistrictsList, mgnrega_data |-> df] :
        df \in rowSeqs}
    \cup {[states |-> StatesList, districts |-> DistrictsList, mgnrega_data |-> df,
           kpis |-> k] : df \in rowSeqs, k \in K}

\* rows for the filter: two states, two districts, two fetch times
RowsFilter ==
    {[BaseRow EXCEPT !.state_name = s, !.district_name = d, !.data_fetched_on = f] :
        s \in {"S1", "S2"}, d \in {"D1", "D2"}, f \in {1, 2}}

\* the largest number of rows of a frame given to filter_data on its own
MaxRowsFilter == 3

\* rows for the overview cards: district D1 at two fetch times, with the budget
\* missing, zero or set, and one row of another district
RowsOverview ==
    {[BaseRow EXCEPT !.data_fetched_on = f, !.approved_labour_budget = b,
                     !.persondays_of_central_liability_so_far = t] :
        f \in {1, 2}, b \in {0, 1000000}, t \in {4, 5}}
    \cup {Without([BaseRow EXCEPT !.data_fetched_on = f], "approved_labour_budget") :
            f \in {1, 2}}
    \cup {OtherDistrictRow}

KpisOverview == {[by_state |-> <<S1Entry>>]}

\* rows for the KPIs: persondays, works and payment percentages vary
RowsKpi ==
    {[BaseRow EXCEPT !.persondays_of_central_liability_so_far = t,
                     !.women_persondays = w] :
        t \in {0, 4}, w \in {0, 1}}
    \cup {[BaseRow EXCEPT !.number_of_completed_works = c, !.number_of_ongoing_works = o] :
            c \in {0, 3}, o \in {0, 1}}
    \cup {[BaseRow EXCEPT !.percentage_payments_generated_within_15_days = 100,
                          !.data_fetched_on = 2]}
    \cup {OtherDistrictRow}

KpisKpi ==
    {[overall |-> OverallFull],
     [overall |-> [female_participation_rate |-> 30]],
     [overall |-> [sc_st_participation_rate |-> 60,
                   average_percentage_payments_within_15_days |-> 70]],
     [by_state |-> <<S1Entry>>],
     [overall |-> OverallFull, by_state |-> <<S1Entry>>]}

\* payloads with parts missing, beside two complete ones
PayloadsRun ==
    {[states |-> StatesList, districts |-> DistrictsList,
      mgnrega_data |-> <<BaseRow, [BaseRow EXCEPT !.data_fetched_on = 2]>>,
      kpis |-> [overall |-> OverallFull, by_state |-> <<S1Entry>>]],
     [states |-> StatesList, districts |-> DistrictsList,
      mgnrega_data |-> <<OtherDistrictRow>>],
     [states |-> StatesList, districts |-> DistrictsList,
      kpis |-> [overall |-> OverallFull]],
     [states |-> StatesList, districts |-> DistrictsList,
      mgnrega_data |-> <<BaseRow>>,
      kpis |-> [by_state |-> <<Without(S1Entry, "state_name")>>]],
     [states |-> StatesList, districts |-> DistrictsList,
      mgnrega_data |-> <<Without(BaseRow, "women_persondays")>>,
      kpis |-> [overall |-> OverallFull]],
     [mgnrega_data |-> <<BaseRow>>]}

(***************************************************************************)
(* Specifications                                                          *)
(***************************************************************************)
\* nothing computed or shown yet
BlankOut ==
    /\ view_df = <<>>
    /\ state_stats = NoStats
    /\ stats_src = "none"
    /\ comp = NoComp
    /\ work = NoWork
    /\ fin = NoFin
    /\ kpi = NoKpi
    /\ err = NoErr
    /\ ui_error = "none"
    /\ stop_at = "none"

\* the process starts: nothing cached, no run yet
Init ==
    /\ pc = "idle"
    /\ has_rerun \in BOOLEAN
    /\ cache = NoCache
    /\ refresh_pending = FALSE
    /\ clicked = "none"
    /\ run_by = "user"
    /\ rendered = {}
    /\ net = <<>>
    /\ fetched = "none"
    /\ payload = NoPayload
    /\ selected_state = "All"
    /\ selected_district = "All"
    /\ BlankOut

Next ==
    \/ UserRun
    \/ Rerun
    \/ Tick
    \/ HealthOk
    \/ HealthFail
    \/ ForceRefresh
    \/ CacheHit
    \/ FetchOk(PayloadsRun)
    \/ FetchFail
    \/ NextRender

Spec == Init /\ [][Next]_vars

\* a run that has just fetched the payload p and stands at `at`
Loaded(p, at) ==
    /\ pc = at
    /\ has_rerun = TRUE
    /\ cache = [has |-> TRUE, payload |-> p, age |-> 0]
    /\ refresh_pending = FALSE
    /\ clicked = "none"
    /\ run_by = "user"
    /\ rendered = {"force_refresh"}
    /\ net = <<"health", "fetch">>
    /\ fetched = "fetch"
    /\ payload = p
    /\ BlankOut

\* filter_data on its own: any frame, any pair of selections
InitFilter ==
    /\ \E df \in SeqsUpTo(RowsFilter, MaxRowsFilter) : Loaded([mgnrega_data |-> df], "filter")
    /\ selected_state \in {"", "All", "S1", "S2", "S3"}
    /\ selected_district \in {"", "All", "D1", "D2", "D3"}

SpecFilter == InitFilter /\ [][FilterStep]_vars

\* the dashboard on payloads whose overview inputs vary
InitOverview ==
    /\ \E p \in PayloadsOf(SeqsUpTo(RowsOverview, MaxRows), KpisOverview) : Loaded(p, "sidebar")
    /\ selected_state = "All"
    /\ selected_district = "All"

SpecOverview == InitOverview /\ [][NextRender]_vars

\* the dashboard on payloads whose KPI inputs vary
InitKpi ==
    /\ \E p \in PayloadsOf(SeqsUpTo(RowsKpi, MaxRows), KpisKpi) : Loaded(p, "sidebar")
    /\ selected_state = "All"
    /\ selected_district = "All"

SpecKpi == InitKpi /\ [][NextRender]_vars

(***************************************************************************)
(* Properties                                                              *)
(***************************************************************************)
\* the rows of the loaded frame and sums over the view, read off the state
Frame == IF "mgnrega_data" \in DOMAIN payload THEN payload.mgnrega_data ELSE <<>>
ViewSum(c) == SumCol(view_df, c)
ViewTotal == ViewSum("persondays_of_central_liability_so_far")
ViewWorks == ViewSum("number_of_completed_works") + ViewSum("number_of_ongoing_works")

\* the backend's overall value for key, None when any part of the path is absent
Backend(key) ==
    IF "kpis" \in DOMAIN payload /\ "overall" \in DOMAIN payload.kpis
       /\ key \in DOMAIN payload.kpis.overall
    THEN Num(payload.kpis.overall[key])
    ELSE None

\* the positions of the rows the selection keeps
Kept ==
    {i \in 1..Len(Frame) :
        IF selected_district \notin {"", "All"} THEN Frame[i].district_name = selected_district
        ELSE IF selected_state \notin {"", "All"} THEN Frame[i].state_name = selected_state
        ELSE TRUE}

Rank(I, i) == Cardinality({j \in I : j <= i})

\* C1: filter_data returns exactly the rows of the selected district when a
\* district other than "All" is set (whatever the state), else exactly the rows
\* of the selected state when a state other than "All" is set, else every row;
\* in the original order, and without an error also when nothing matches.
C1_FilterExact ==
    pc # "filter" =>
       /\ err = NoErr
       /\ Len(view_df) = Cardinality(Kept)
       /\ \A i \in Kept : view_df[Rank(Kept, i)] = Frame[i]

\* a district and a different state are selected; the view holds two of three
\* rows, in order, the middle row dropped, the state ignored
C1_Witness ==
    /\ pc = "overview"
    /\ selected_district = "D1"
    /\ selected_state = "S2"
    /\ Len(Frame) = 3
    /\ Frame[2].district_name = "D2"
    /\ view_df = <<Frame[1], Frame[3]>>
    /\ Frame[1] # Frame[3]
    /\ Frame[1].state_name = "S1"

\* C2: with one district selected and no per-state aggregate from the backend,
\* every number the dashboard shows is the raw field of the one row of the view
\* with the greatest data_fetched_on, never a sum or mean over several rows.
C2_SingleRowOnly ==
    (/\ selected_district # "All"
     /\ ByState(payload) = <<>>
     /\ ~IsEmpty(view_df)
     /\ comp # NoComp)
    => \E i \in 1..Len(view_df) :
          /\ \A j \in 1..Len(view_df) :
                view_df[j].data_fetched_on <= view_df[i].data_fetched_on
          /\ state_stats.total_expenditure = Num(view_df[i].total_exp)
          /\ comp.total_persondays =
                 Num(view_df[i].persondays_of_central_liability_so_far)
          /\ comp.women = Num(view_df[i].women_persondays)

FemRule ==
    IF Backend("female_participation_rate") # None
    THEN kpi.fem = Backend("female_participation_rate")
    ELSE IF Len(view_df) > 0 /\ ViewTotal > 0
    THEN kpi.fem = Rat(ViewSum("women_persondays") * 100, ViewTotal)
    ELSE kpi.fem = None

ScstRule ==
    IF Backend("sc_st_participation_rate") # None
    THEN kpi.scst = Backend("sc_st_participation_rate")
    ELSE IF Len(view_df) > 0 /\ ViewTotal > 0
    THEN kpi.scst = Rat((ViewSum("sc_persondays") + ViewSum("st_persondays")) * 100, ViewTotal)
    ELSE kpi.scst = None

TprRule ==
    IF Backend("average_percentage_payments_within_15_days") # None
    THEN kpi.tpr = Backend("average_percentage_payments_within_15_days")
    ELSE IF Len(view_df) > 0
    THEN kpi.tpr = Rat(ViewSum("percentage_payments_generated_within_15_days"), Len(view_df))
    ELSE kpi.tpr = None

KpiRules ==
    /\ kpi.bud_pct = Backend("percent_utilization")
    /\ FemRule
    /\ ScstRule
    /\ TprRule

\* C3 as claimed: whether or not the payload has a kpis object, each percentage
\* KPI is the backend's overall value when present and the derived value
\* otherwise.
C3_Original == pc \in {"preview", "done"} => KpiRules

\* C3 as amended: with a kpis object in the payload each percentage KPI is the
\* backend's overall value verbatim when present; when absent it is the derived
\* value on a view with rows (undefined for the two participation rates when
\* total_persondays is 0) and undefined on an empty view.  Without a kpis
\* object no KPI is computed or shown.
C3_Amended ==
    pc \in {"preview", "done"} =>
       IF "kpis" \in DOMAIN payload THEN kpi.shown /\ KpiRules ELSE kpi = NoKpi

\* the backend gives the SC/ST rate (60) but no female rate: the first is shown
\* although the rows give 50, the second is derived from the rows (25)
C3_Witness ==
    /\ pc = "done"
    /\ Backend("female_participation_rate") = None
    /\ kpi.fem = Num(25)
    /\ kpi.scst = Num(60)
    /\ ViewTotal = 4
    /\ ViewSum("sc_persondays") + ViewSum("st_persondays") = 2

\* C4: a ratio whose denominator is zero or missing is None, never zero and
\* never an error; with a non-zero denominator it is defined.
C4_UndefinedNotError ==
    /\ ~(pc = "crashed" /\ err.at = "overview")
    /\ (stats_src \in {"row", "agg"} /\ pc # "crashed") =>
          (state_stats.percent_utilization = None
             <=> state_stats.approved_labour_budget = Num(0))
    /\ kpi.shown =>
          /\ (ViewWorks = 0 <=> kpi.wcr = None)
          /\ (ViewTotal = 0 /\ Backend("female_participation_rate") = None) => kpi.fem = None
          /\ (ViewTotal = 0 /\ Backend("sc_st_participation_rate") = None) => kpi.scst = None

\* C5 as claimed: avg_cost_per_work is total_expenditure / max(completed +
\* ongoing, 1) in every case, a defined number also when there are no works.
C5_Original ==
    fin # NoFin =>
       fin.avg_cost_per_work = Rat(ViewSum("total_exp"), Max(ViewWorks, 1))

\* C5 as amended: avg_cost_per_work is total_expenditure / (completed +
\* ongoing) when completed + ongoing > 0, and None (shown as a dash) when
\* completed + ongoing = 0, the empty view included.
C5_Amended ==
    fin # NoFin =>
       IF ViewWorks > 0
       THEN fin.avg_cost_per_work = Rat(ViewSum("total_exp"), ViewWorks)
       ELSE fin.avg_cost_per_work = None /\ Shown(fin.avg_cost_per_work) = "dash"

\* a view with rows and money spent but no works: the card shows a dash
C5_Witness ==
    /\ pc = "done"
    /\ Len(view_df) > 0
    /\ ViewSum("total_exp") > 0
    /\ ViewWorks = 0
    /\ fin.avg_cost_per_work = None

\* C6: whatever part of the payload is absent, the run never ends in an
\* unhandled error.
C6_NoUnhandledError == pc # "crashed" /\ err = NoErr

Zero == Num(0)

\* C7: on an empty view every sum and mean the script computes is 0, and
\* computing them raises no error.
C7_EmptyViewZero ==
    (IsEmpty(view_df) /\ pc \notin {"idle", "health", "force", "load", "rerun",
                                     "sidebar", "gate", "filter", "overview"}) =>
       /\ err = NoErr
       /\ stats_src = "agg" =>
             /\ state_stats.approved_labour_budget = Zero
             /\ state_stats.total_expenditure = Zero
             /\ state_stats.avg_wage_rate = Zero
             /\ state_stats.avg_days_of_employment_per_household = Zero
             /\ state_stats.total_households_worked = Zero
       /\ comp # NoComp =>
             \A f \in {"total_persondays", "sc", "st_", "women", "active_workers",
                       "households"} : comp[f] = Zero
       /\ work # NoWork => \A f \in DOMAIN work : work[f] = Zero
       /\ fin # NoFin =>
             \A f \in {"wages", "material", "pct_payments", "nil_gps"} : fin[f] = Zero

\* rows exist but none of the selected district: the run ends with zeros
C7_Witness ==
    /\ pc = "done"
    /\ Len(Frame) > 0
    /\ view_df = <<>>
    /\ stats_src = "agg"
    /\ state_stats.avg_wage_rate = Zero
    /\ work.pct_nrm = Zero
    /\ fin.pct_payments = Zero

\* the cache holds an entry for the endpoint that has not expired
Unexpired == cache.has /\ cache.age < TTL

\* C8: a load issues a network fetch exactly when the cache holds no unexpired
\* entry, and otherwise returns the cached payload and leaves the cache as it
\* is; a fetched payload replaces the entry wholesale; after a Force refresh
\* the cache is empty, the next load fetches, and clearing an empty cache
\* changes nothing.
C8_FetchIffNoEntry ==
    [][/\ (pc = "load" /\ pc' # "load") =>
            /\ (net' = Append(net, "fetch")) <=> ~Unexpired
            /\ Unexpired => (net' = net /\ payload' = cache.payload /\ cache' = cache)
            /\ fetched' = "fetch" =>
                  cache' = [has |-> TRUE, payload |-> payload', age |-> 0]
            /\ refresh_pending => net' = Append(net, "fetch")
       /\ (pc = "force" /\ clicked = "force_refresh" /\ pc' # "force") =>
            /\ ~cache'.has
            /\ refresh_pending'
            /\ ~cache.has => cache' = cache
      ]_vars

\* a later run is served the payload an earlier run fetched, from an entry
\* that has aged but not expired, without a data request
C8_Witness ==
    /\ pc = "sidebar"
    /\ fetched = "hit"
    /\ net = <<"health">>
    /\ cache.age > 0
    /\ cache.age < TTL
    /\ payload = cache.payload
    /\ Len(Frame) > 0

\* C9: the health check comes before the data fetch; a run in which either
\* fails shows the error with its retry button, issues no further request and
\* ends; the script starts itself again only as the direct effect of a button
\* click, and a run started that way never starts the script again.
C9_FailStopsRun ==
    /\ net \in {<<>>, <<"health">>, <<"health", "fetch">>}
    /\ ui_error = "health" =>
          /\ net = <<"health">>
          /\ fetched = "none"
          /\ "retry_health" \in rendered
          /\ pc \in {"stopped", "rerun"}
    /\ ui_error = "fetch" =>
          /\ net = <<"health", "fetch">>
          /\ fetched = "failed"
          /\ "retry_fetch" \in rendered
          /\ pc \in {"stopped", "rerun"}
    /\ (pc = "stopped" /\ stop_at \in {"health", "fetch"}) => ui_error = stop_at
    /\ pc = "rerun" => (clicked # "none" /\ run_by = "user")

\* the fetch failed in a run with no button clicked: error, retry button, stop
C9_Witness ==
    /\ pc = "stopped"
    /\ stop_at = "fetch"
    /\ ui_error = "fetch"
    /\ clicked = "none"
    /\ net = <<"health", "fetch">>
    /\ "retry_fetch" \in rendered

\* C10: while the selected district is "All" nothing of the dashboard is
\* computed: the run stops after the selectors.  So filter_data is only called
\* with a district, the view is always the rows of that district, and the
\* fallback aggregates are only computed over an empty view.
C10_DistrictGate ==
    /\ selected_district = "All" =>
          /\ pc \notin {"filter", "overview", "composition", "work", "financial",
                         "kpis", "preview", "done"}
          /\ view_df = <<>> /\ state_stats = NoStats /\ stats_src = "none"
          /\ comp = NoComp /\ work = NoWork /\ fin = NoFin /\ kpi = NoKpi
    /\ pc = "filter" => selected_district \notin {"", "All"}
    /\ pc \in {"overview", "composition", "work", "financial", "kpis", "preview", "done"} =>
          view_df = RowsWhere(Frame, "district_name", selected_district)
    /\ stats_src = "agg" => IsEmpty(view_df)

\* a state is selected, rows are loaded, and the run has stopped at the gate
C10_Witness ==
    /\ pc = "stopped"
    /\ stop_at = "gate"
    /\ selected_state = "S1"
    /\ selected_district = "All"
    /\ Len(Frame) > 0
    /\ view_df = <<>>

====
